---------------------------- MODULE Spec2Model ----------------------------
(***************************************************************************)
(* Job-event relay of code-in-backend: the per-job subscription registry   *)
(* (jobSubscriptions, allConnections), the WebSocket gateway handlers      *)
(* (open / message / close / error) and the forwarding of bus events       *)
(* (handleStatusUpdate / handleCompleteUpdate) of src/lib/websocket.ts.    *)
(*                                                                         *)
(* The server is a single JavaScript event loop: every handler and every   *)
(* bus callback is synchronous and runs to completion, so each is one      *)
(* atomic action.                                                          *)
(*                                                                         *)
(* SpecBoot adds initializeServices() (src/index.ts, src/lib/redis.ts):    *)
(* the two Redis connects and the two channel subscriptions, each of which *)
(* may fail.  SpecRoutes is the HTTP side: the submit, retry and cancel    *)
(* routes (src/routes/repos.ts, src/routes/jobs.ts) over the jobs table    *)
(* (src/lib/supabase.ts) and the work list; a route is one action per      *)
(* await, so requests interleave at their awaits.                          *)
(***************************************************************************)
EXTENDS Integers, Sequences, FiniteSets, TLC

\* ------------------------------------------------------------------ bounds
NumConns == 2
NumJobs == 2
NumReqs == 2
MaxRows == 1
MaxQueue == 2

\* --------------------------------------------------------------- constants
\* WebSocket.readyState values; sendMessage compares against 1 (OPEN).
CONNECTING == 0
OPEN == 1
CLOSING == 2
CLOSED == 3

\* message.job_id when it is absent or the empty string: falsy in `if (message.job_id)`.
NoJobId == 0

\* The connection handles (ws.raw) and the job identifiers.
WS == 1..NumConns
JobIds == 1..NumJobs

\* `data` of a handler that carries no bus event.
NoData == [none |-> TRUE]

\* StatusMessage payloads published on code-indexer:status (message? and progress? are optional).
StatusMessages ==
    {[job_id |-> j, status |-> st, progress |-> 50] :
        j \in JobIds, st \in {"processing", "completed"}}

\* CompleteMessage payloads published on code-indexer:complete.
CompleteMessages == {[job_id |-> j, success |-> ok] : j \in JobIds, ok \in BOOLEAN}

\* Inbound control messages accepted by the body schema: job_id is optional.
WSMessages ==
    {[type |-> t, job_id |-> j] :
        t \in {"subscribe", "unsubscribe", "ping"}, j \in JobIds \cup {NoJobId}}

\* Frames that fail the body schema: a type outside the three literals.
InvalidFrames == {[type |-> "bogus", job_id |-> NoJobId]}

\* Everything a client may send on the socket.
Frames == WSMessages \cup InvalidFrames

\* The body schema of the /ws route: only a frame that passes it is given to message().
BodySchema(frame) ==
    /\ frame.type \in {"subscribe", "unsubscribe", "ping"}
    /\ frame.job_id \in JobIds \cup {NoJobId}

VARIABLES
    jobSubscriptions,   \* Map<string, Set<WS>>: a function whose DOMAIN is the Map's keys
    allConnections,     \* Set<WS>
    readyState,         \* ws.readyState of every connection handle
    cleaned,            \* the handles for which cleanupConnection has run
    sent,               \* per handle: the messages the last handler passed to ws.send
    last,               \* the last handler that ran: [op, ws, job_id, data, again];
                        \* again: cleanupConnection had already run for ws when it started
    pre,                \* jobSubscriptions as it was when the last handler started
    redis,              \* the Redis clients and initializeServices():
                        \* [pc, publisher, subscriber, status, complete]
    jobs,               \* the jobs table: a function from the ids of the stored rows
    queue,              \* the list code-indexer:jobs, oldest descriptor first
    reqs                \* the HTTP requests in flight

routeVars == <<jobs, queue, reqs>>

vars == <<jobSubscriptions, allConnections, readyState, cleaned, sent, last, pre, redis,
          routeVars>>

\* ------------------------------------------------------------------ routes
\* The requests that can be in flight at once.
Reqs == 1..NumReqs

\* The ids the jobs table hands out, and the ids a client may name in a URL.
RowIds == 1..MaxRows

\* error_message when it is null.
NoError == ""

\* model_id when the body has none.
NoModel == ""

\* The ids of AVAILABLE_MODELS the requests use, and the id of getDefaultModel().
AvailableModels == {"gpt-4o-mini", "gpt-4o"}

DefaultModel == "gpt-4o-mini"

\* The model_id values of the request bodies: none, a listed model, an unlisted one.
ModelIds == {NoModel, "gpt-4o", "gpt-5"}

\* A request slot with no request in it.
Idle ==
    [route |-> "idle", pc |-> "none", job |-> NoJobId, seen |-> "none", update |-> "none",
     selectedModel |-> NoModel]

\* A request between two awaits: the route, the await it is at, its job id, the status it
\* read (or created), what became of its updateJobStatus(job, "processing"), and its
\* local selectedModel.
Request(route, pc, job, seen, update) ==
    [route |-> route, pc |-> pc, job |-> job, seen |-> seen, update |-> update,
     selectedModel |-> NoModel]

\* ----------------------------------------------------------------- helpers
NoSends == [w \in WS |-> <<>>]

\* Map.get(jobId): the Set stored under jobId, or undefined (modelled as {} with Has = FALSE).
Has(subs, jobId) == jobId \in DOMAIN subs

Get(subs, jobId) == IF Has(subs, jobId) THEN subs[jobId] ELSE {}

\* Map.set(jobId, s)
MapSet(subs, jobId, s) == [k \in DOMAIN subs \cup {jobId} |-> IF k = jobId THEN s ELSE subs[k]]

\* Map.delete(jobId)
MapDelete(subs, jobId) == [k \in DOMAIN subs \ {jobId} |-> subs[k]]

\* Mutant of Truthy: the job_id check is missing.
TruthyAlways(jobId) == TRUE

\* `if (message.job_id)`: undefined and "" are falsy.
Truthy(jobId) == jobId # NoJobId

\* Mutant of sendMessage: only a CLOSED socket is skipped.
sendMessageUnlessClosed(rs, ws, message) == IF rs[ws] # CLOSED THEN <<message>> ELSE <<>>

\* Mutant of sendMessage: the readyState check is missing.
sendMessageAlways(rs, ws, message) == <<message>>

\* sendMessage(ws, message): ws.send is called iff ws.readyState === 1; an exception of
\* ws.send is caught, so nothing propagates to the caller.  The result is the sequence of
\* messages handed to ws.send for this one call.
sendMessage(rs, ws, message) == IF rs[ws] = OPEN THEN <<message>> ELSE <<>>

\* Mutant of broadcastToJob: without a Set for the job the message goes to every subscriber.
broadcastToJobOrAll(subs, rs, jobId, message) ==
    [w \in WS |->
        IF \/ Has(subs, jobId) /\ w \in subs[jobId]
           \/ ~Has(subs, jobId) /\ \E k \in DOMAIN subs : w \in subs[k]
        THEN sendMessage(rs, w, message)
        ELSE <<>>]

\* Mutant of broadcastToJob: the message goes to the subscribers of every job.
broadcastToEveryJob(subs, rs, jobId, message) ==
    [w \in WS |->
        IF \E k \in DOMAIN subs : w \in subs[k] THEN sendMessage(rs, w, message) ELSE <<>>]

\* broadcastToJob(jobId, message): the sends of one broadcast, per handle.
broadcastToJob(subs, rs, jobId, message) ==
    [w \in WS |->
        IF Has(subs, jobId) /\ w \in subs[jobId] THEN sendMessage(rs, w, message) ELSE <<>>]

\* The outgoing message of handleStatusUpdate.
StatusOut(status) == [type |-> "status", job_id |-> status.job_id, data |-> status]

\* Mutant of CompleteOut: the completion is tagged as a status message.
CompleteOutAsStatus(complete) ==
    [type |-> "status", job_id |-> complete.job_id, data |-> complete]

\* The outgoing message of handleCompleteUpdate.
CompleteOut(complete) == [type |-> "complete", job_id |-> complete.job_id, data |-> complete]

\* The acknowledgment of subscribeToJob.
SubscribedOut(jobId) ==
    [type |-> "subscribed", job_id |-> jobId, message |-> <<"Subscribed to job ", jobId>>]

\* Mutant of subscribeToJobSends: the acknowledgment goes to every connection.
subscribeToJobSendsAll(rs, ws, jobId) ==
    [w \in WS |-> sendMessage(rs, w, SubscribedOut(jobId))]

\* subscribeToJob's sendMessage(ws, {type: "subscribed", ...}): the sends, per handle.
subscribeToJobSends(rs, ws, jobId) ==
    [NoSends EXCEPT ![ws] = sendMessage(rs, ws, SubscribedOut(jobId))]

\* Mutant of PongOut: the reply carries a job_id.
PongOutWithJobId == [type |-> "pong", job_id |-> NoJobId]

\* The reply to a ping.
PongOut == [type |-> "pong"]

\* Mutant of subscribeToJobMap: a handle is kept under one job id only.
subscribeToJobMapExclusive(subs, ws, jobId) ==
    [k \in DOMAIN subs \cup {jobId} |->
        IF k = jobId THEN Get(subs, jobId) \cup {ws} ELSE subs[k] \ {ws}]

\* Mutant of subscribeToJobMap: a new Set is stored under jobId on every subscribe.
subscribeToJobMapNewSet(subs, ws, jobId) == MapSet(subs, jobId, {ws})

\* subscribeToJob's effect on the Map.
subscribeToJobMap(subs, ws, jobId) ==
    LET withKey == IF ~Has(subs, jobId) THEN MapSet(subs, jobId, {}) ELSE subs
    IN  MapSet(withKey, jobId, withKey[jobId] \cup {ws})

\* Mutant of unsubscribeFromJobMap: the handle is left in the Set.
unsubscribeLeavesMember(subs, ws, jobId) == subs

\* Mutant of unsubscribeFromJobMap: the key is kept when its Set becomes empty.
unsubscribeKeepsKey(subs, ws, jobId) ==
    IF Has(subs, jobId) THEN MapSet(subs, jobId, subs[jobId] \ {ws}) ELSE subs

\* Mutant of unsubscribeFromJobMap: the key is deleted whatever is left in its Set.
unsubscribeDeletesKey(subs, ws, jobId) ==
    IF Has(subs, jobId) THEN MapDelete(subs, jobId) ELSE subs

\* unsubscribeFromJob's effect on the Map.
unsubscribeFromJobMap(subs, ws, jobId) ==
    IF Has(subs, jobId)
    THEN LET subscribers == subs[jobId] \ {ws}
         IN  IF Cardinality(subscribers) = 0
             THEN MapDelete(subs, jobId)
             ELSE MapSet(subs, jobId, subscribers)
    ELSE subs

\* cleanupConnection's jobSubscriptions.forEach: the keys are visited one by one; the
\* callback deletes ws from the visited Set and deletes the key when the Set is empty.
\* Deleting the visited key of a Map during forEach does not skip the remaining keys.
RECURSIVE cleanupForEach(_, _, _)
cleanupForEach(subs, todo, ws) ==
    IF todo = {} THEN subs
    ELSE LET jobId == CHOOSE k \in todo : \A o \in todo : k <= o
             subscribers == subs[jobId] \ {ws}
             next == IF Cardinality(subscribers) = 0
                     THEN MapDelete(subs, jobId)
                     ELSE MapSet(subs, jobId, subscribers)
         IN  cleanupForEach(next, todo \ {jobId}, ws)

\* Mutant of cleanupSubscriptions: the iteration ends after the first key it visits.
cleanupFirstKeyOnly(subs, ws) ==
    IF DOMAIN subs = {} THEN subs
    ELSE cleanupForEach(subs, {CHOOSE k \in DOMAIN subs : \A o \in DOMAIN subs : k <= o}, ws)

\* Mutant of cleanupSubscriptions: the iteration ends after the first Set that held ws.
cleanupFirstMembershipOnly(subs, ws) ==
    LET holding == {k \in DOMAIN subs : ws \in subs[k]} IN
        IF holding = {} THEN subs
        ELSE cleanupForEach(subs, {CHOOSE k \in holding : \A o \in holding : k <= o}, ws)

\* cleanupConnection's effect on jobSubscriptions.
cleanupSubscriptions(subs, ws) == cleanupForEach(subs, DOMAIN subs, ws)

\* ------------------------------------------------------------------- state
EmptyMap == [k \in {} |-> {}]

\* initializeServices() has not started: both clients are created, none is connected.
RedisStart ==
    [pc |-> "publisher", publisher |-> FALSE, subscriber |-> FALSE,
     status |-> FALSE, complete |-> FALSE]

\* initializeServices() went through: both clients connected, both channels subscribed.
RedisReady ==
    [pc |-> "ready", publisher |-> TRUE, subscriber |-> TRUE,
     status |-> TRUE, complete |-> TRUE]

\* No request in flight, an empty table and an empty list.
InitRoutes ==
    /\ jobs = EmptyMap
    /\ queue = <<>>
    /\ reqs = [r \in Reqs |-> Idle]

\* The gateway before any connection.
InitGateway ==
    /\ jobSubscriptions = EmptyMap
    /\ allConnections = {}
    /\ readyState = [w \in WS |-> CONNECTING]
    /\ cleaned = {}
    /\ sent = NoSends
    /\ last = [op |-> "init", ws |-> 0, job_id |-> NoJobId, data |-> NoData, again |-> FALSE]
    /\ pre = EmptyMap

\* The gateway once the relay is subscribed to both channels.
Init ==
    /\ InitGateway
    /\ redis = RedisReady
    /\ InitRoutes

\* ----------------------------------------------------------------- actions
\* open(ws): a new connection is accepted.
Open(ws) ==
    /\ readyState[ws] = CONNECTING
    /\ readyState' = [readyState EXCEPT ![ws] = OPEN]
    /\ allConnections' = allConnections \cup {ws}
    /\ sent' = NoSends
    /\ last' = [op |-> "open", ws |-> ws, job_id |-> NoJobId, data |-> NoData, again |-> FALSE]
    /\ pre' = jobSubscriptions
    /\ UNCHANGED <<jobSubscriptions, cleaned>>
    /\ UNCHANGED <<redis, routeVars>>

\* Mutant of Message: the ping case falls through into the subscribe case.
MessagePingFallsThrough(ws, message) ==
    /\ readyState[ws] = OPEN
    /\ BodySchema(message)
    /\ \/ /\ message.type \in {"subscribe", "ping"}
          /\ IF Truthy(message.job_id)
             THEN /\ jobSubscriptions' = subscribeToJobMap(jobSubscriptions, ws, message.job_id)
                  /\ sent' = subscribeToJobSends(readyState, ws, message.job_id)
             ELSE /\ UNCHANGED jobSubscriptions
                  /\ sent' = NoSends
       \/ /\ message.type = "unsubscribe"
          /\ IF Truthy(message.job_id)
             THEN jobSubscriptions' = unsubscribeFromJobMap(jobSubscriptions, ws, message.job_id)
             ELSE UNCHANGED jobSubscriptions
          /\ sent' = NoSends
    /\ last' = [op |-> message.type, ws |-> ws, job_id |-> message.job_id, data |-> NoData,
                again |-> FALSE]
    /\ pre' = jobSubscriptions
    /\ UNCHANGED <<allConnections, readyState, cleaned>>
    /\ UNCHANGED <<redis, routeVars>>

\* A frame that fails the body schema: message() is not called for it.
Reject(ws, frame) ==
    /\ readyState[ws] = OPEN
    /\ ~BodySchema(frame)
    /\ sent' = NoSends
    /\ last' = [op |-> "rejected", ws |-> ws, job_id |-> NoJobId, data |-> NoData,
                again |-> FALSE]
    /\ pre' = jobSubscriptions
    /\ UNCHANGED <<jobSubscriptions, allConnections, readyState, cleaned>>
    /\ UNCHANGED <<redis, routeVars>>

\* message(ws, message): one inbound control message of an open connection.
Message(ws, message) ==
    /\ readyState[ws] = OPEN
    /\ BodySchema(message)
    /\ \/ /\ message.type = "subscribe"
          /\ IF Truthy(message.job_id)
             THEN /\ jobSubscriptions' = subscribeToJobMap(jobSubscriptions, ws, message.job_id)
                  /\ sent' = subscribeToJobSends(readyState, ws, message.job_id)
             ELSE /\ UNCHANGED jobSubscriptions
                  /\ sent' = NoSends
       \/ /\ message.type = "unsubscribe"
          /\ IF Truthy(message.job_id)
             THEN jobSubscriptions' = unsubscribeFromJobMap(jobSubscriptions, ws, message.job_id)
             ELSE UNCHANGED jobSubscriptions
          /\ sent' = NoSends
       \/ /\ message.type = "ping"
          /\ UNCHANGED jobSubscriptions
          /\ sent' = [NoSends EXCEPT ![ws] = sendMessage(readyState, ws, PongOut)]
    /\ last' = [op |-> message.type, ws |-> ws, job_id |-> message.job_id, data |-> NoData,
                again |-> FALSE]
    /\ pre' = jobSubscriptions
    /\ UNCHANGED <<allConnections, readyState, cleaned>>
    /\ UNCHANGED <<redis, routeVars>>

\* Mutant of cleanupConnection: the handle is only removed from allConnections.
cleanupAllConnectionsOnly(ws) ==
    /\ allConnections' = allConnections \ {ws}
    /\ cleaned' = cleaned \cup {ws}
    /\ UNCHANGED jobSubscriptions

\* cleanupConnection(ws)
cleanupConnection(ws) ==
    /\ allConnections' = allConnections \ {ws}
    /\ jobSubscriptions' = cleanupSubscriptions(jobSubscriptions, ws)
    /\ cleaned' = cleaned \cup {ws}

\* The socket leaves OPEN (the peer started the closing handshake, or the transport broke)
\* before the close handler has run.
Closing(ws) ==
    /\ readyState[ws] = OPEN
    /\ readyState' = [readyState EXCEPT ![ws] = CLOSING]
    /\ sent' = NoSends
    /\ last' = [op |-> "closing", ws |-> ws, job_id |-> NoJobId, data |-> NoData,
                again |-> FALSE]
    /\ pre' = jobSubscriptions
    /\ UNCHANGED <<jobSubscriptions, allConnections, cleaned>>
    /\ UNCHANGED <<redis, routeVars>>

\* close(ws): the close handler; the framework calls it once, when the socket is closed.
Close(ws) ==
    /\ readyState[ws] \in {OPEN, CLOSING}
    /\ readyState' = [readyState EXCEPT ![ws] = CLOSED]
    /\ cleanupConnection(ws)
    /\ sent' = NoSends
    /\ last' = [op |-> "close", ws |-> ws, job_id |-> NoJobId, data |-> NoData,
                again |-> ws \in cleaned]
    /\ pre' = jobSubscriptions
    /\ UNCHANGED <<redis, routeVars>>

\* error(ws, error): the error handler; it does not close the socket.
Error(ws) ==
    /\ readyState[ws] \in {OPEN, CLOSING}
    /\ cleanupConnection(ws)
    /\ sent' = NoSends
    /\ last' = [op |-> "error", ws |-> ws, job_id |-> NoJobId, data |-> NoData,
                again |-> ws \in cleaned]
    /\ pre' = jobSubscriptions
    /\ UNCHANGED readyState
    /\ UNCHANGED <<redis, routeVars>>

\* The handles whose ws.send throws during a broadcast: those of `throwing` for which
\* sendMessage gets as far as ws.send. The catch of sendMessage logs and returns.
Threw(subs, rs, jobId, throwing) ==
    {w \in throwing : w \in Get(subs, jobId) /\ rs[w] = OPEN}

\* The event the callback of the same channel handled for the same job in the step before,
\* NoData when the step before was something else.
Prev(l, op, jobId) == IF l.op = op /\ l.job_id = jobId THEN l.data ELSE NoData

\* Mutant of HandleStatusUpdate: the callback keeps the event back and hands on the one it
\* got before.
HandleStatusUpdateDeferred(status, throwing) ==
    /\ redis.status
    /\ sent' = IF last.op = "status"
               THEN broadcastToJob(jobSubscriptions, readyState, last.job_id,
                                   StatusOut(last.data))
               ELSE NoSends
    /\ last' = [op |-> "status", ws |-> 0, job_id |-> status.job_id, data |-> status,
                again |-> FALSE,
                threw |-> Threw(jobSubscriptions, readyState, status.job_id, throwing),
                prev |-> Prev(last, "status", status.job_id)]
    /\ pre' = jobSubscriptions
    /\ UNCHANGED <<jobSubscriptions, allConnections, readyState, cleaned>>
    /\ UNCHANGED <<redis, routeVars>>

\* Mutant of HandleStatusUpdate: sendMessage has no try/catch, so the first ws.send that
\* throws ends the forEach (the Set is visited in the order of the handles).
HandleStatusUpdateNoCatch(status, throwing) ==
    /\ redis.status
    /\ sent' = [w \in WS |->
            IF \E t \in Threw(jobSubscriptions, readyState, status.job_id, throwing) : t < w
            THEN <<>>
            ELSE broadcastToJob(jobSubscriptions, readyState, status.job_id,
                                StatusOut(status))[w]]
    /\ last' = [op |-> "status", ws |-> 0, job_id |-> status.job_id, data |-> status,
                again |-> FALSE,
                threw |-> Threw(jobSubscriptions, readyState, status.job_id, throwing),
                prev |-> Prev(last, "status", status.job_id)]
    /\ pre' = jobSubscriptions
    /\ UNCHANGED <<jobSubscriptions, allConnections, readyState, cleaned>>
    /\ UNCHANGED <<redis, routeVars>>

\* Mutant of HandleStatusUpdate: the callback also runs without a subscription.
HandleStatusUpdateUnsubscribed(status, throwing) ==
    /\ sent' = broadcastToJob(jobSubscriptions, readyState, status.job_id, StatusOut(status))
    /\ last' = [op |-> "status", ws |-> 0, job_id |-> status.job_id, data |-> status,
                again |-> FALSE,
                threw |-> Threw(jobSubscriptions, readyState, status.job_id, throwing),
                prev |-> Prev(last, "status", status.job_id)]
    /\ pre' = jobSubscriptions
    /\ UNCHANGED <<jobSubscriptions, allConnections, readyState, cleaned>>
    /\ UNCHANGED <<redis, routeVars>>

\* handleStatusUpdate(status): a StatusMessage received on the status channel; the callback
\* is registered by subscribeToStatus. `throwing` are the handles whose ws.send would throw.
HandleStatusUpdate(status, throwing) ==
    /\ redis.status
    /\ sent' = broadcastToJob(jobSubscriptions, readyState, status.job_id, StatusOut(status))
    /\ last' = [op |-> "status", ws |-> 0, job_id |-> status.job_id, data |-> status,
                again |-> FALSE,
                threw |-> Threw(jobSubscriptions, readyState, status.job_id, throwing),
                prev |-> Prev(last, "status", status.job_id)]
    /\ pre' = jobSubscriptions
    /\ UNCHANGED <<jobSubscriptions, allConnections, readyState, cleaned>>
    /\ UNCHANGED <<redis, routeVars>>

\* handleCompleteUpdate(complete): a CompleteMessage received on the completion channel; the
\* callback is registered by subscribeToComplete.
HandleCompleteUpdate(complete, throwing) ==
    /\ redis.complete
    /\ sent' = broadcastToJob(jobSubscriptions, readyState, complete.job_id, CompleteOut(complete))
    /\ last' = [op |-> "complete", ws |-> 0, job_id |-> complete.job_id, data |-> complete,
                again |-> FALSE,
                threw |-> Threw(jobSubscriptions, readyState, complete.job_id, throwing),
                prev |-> Prev(last, "complete", complete.job_id)]
    /\ pre' = jobSubscriptions
    /\ UNCHANGED <<jobSubscriptions, allConnections, readyState, cleaned>>
    /\ UNCHANGED <<redis, routeVars>>

\* Payloads of a bus message that JSON.parse rejects.
Unparsable == {"", "{job_id:"}

\* Mutant of ParseError: the listener has no try/catch and the SyntaxError ends the
\* subscription of the channel.
ParseErrorUnsubscribes(channel, payload) ==
    /\ redis[channel]
    /\ redis' = [redis EXCEPT ![channel] = FALSE]
    /\ sent' = NoSends
    /\ last' = [op |-> "parseError", ws |-> 0, job_id |-> NoJobId,
                data |-> [channel |-> channel, payload |-> payload], again |-> FALSE]
    /\ pre' = jobSubscriptions
    /\ UNCHANGED <<jobSubscriptions, allConnections, readyState, cleaned>>
    /\ UNCHANGED routeVars

\* The listener of subscribeToStatus / subscribeToComplete for a payload that JSON.parse
\* rejects: the SyntaxError is caught and logged, the callback is not called.
ParseError(channel, payload) ==
    /\ redis[channel]
    /\ sent' = NoSends
    /\ last' = [op |-> "parseError", ws |-> 0, job_id |-> NoJobId,
                data |-> [channel |-> channel, payload |-> payload], again |-> FALSE]
    /\ pre' = jobSubscriptions
    /\ UNCHANGED <<jobSubscriptions, allConnections, readyState, cleaned>>
    /\ UNCHANGED <<redis, routeVars>>

Next ==
    \/ \E ws \in WS : Open(ws)
    \/ \E ws \in WS, message \in Frames : Message(ws, message)
    \/ \E ws \in WS, frame \in Frames : Reject(ws, frame)
    \/ \E ws \in WS : Closing(ws)
    \/ \E ws \in WS : Close(ws)
    \/ \E ws \in WS : Error(ws)
    \/ \E status \in StatusMessages, throwing \in SUBSET WS :
            HandleStatusUpdate(status, throwing)
    \/ \E complete \in CompleteMessages, throwing \in SUBSET WS :
            HandleCompleteUpdate(complete, throwing)
    \/ \E channel \in {"status", "complete"}, payload \in Unparsable :
            ParseError(channel, payload)

Spec == Init /\ [][Next]_vars

\* ------------------------------------------------------------ initialisation
\* initRedis(): the publisher connects, then the subscriber; a failed connect is rethrown and
\* initializeServices() gives up ("degraded mode").
initRedis(r, ok) ==
    IF ~ok THEN [r EXCEPT !.pc = "degraded"]
    ELSE IF r.pc = "publisher" THEN [r EXCEPT !.publisher = TRUE, !.pc = "subscriber"]
    ELSE [r EXCEPT !.subscriber = TRUE, !.pc = "status"]

\* initWebSocketRedisRelay(): subscribeToStatus, then subscribeToComplete; a failure of
\* either is caught and logged, and what is subscribed stays subscribed.
initWebSocketRedisRelay(r, ok) ==
    IF ~ok THEN [r EXCEPT !.pc = "relayFailed"]
    ELSE IF r.pc = "status" THEN [r EXCEPT !.status = TRUE, !.pc = "complete"]
    ELSE [r EXCEPT !.complete = TRUE, !.pc = "ready"]

\* What a step of initializeServices() leaves of the gateway's variables.
BootFrame(op, ok) ==
    /\ sent' = NoSends
    /\ last' = [op |-> op, ws |-> 0, job_id |-> NoJobId, data |-> [ok |-> ok], again |-> FALSE]
    /\ pre' = jobSubscriptions
    /\ UNCHANGED <<jobSubscriptions, allConnections, readyState, cleaned>>

\* One await of initRedis(): connect() resolves (ok) or rejects.
InitRedis(ok) ==
    /\ redis.pc \in {"publisher", "subscriber"}
    /\ redis' = initRedis(redis, ok)
    /\ BootFrame("initRedis", ok)
    /\ UNCHANGED routeVars

\* One await of initWebSocketRedisRelay(): subscribe() resolves (ok) or rejects.
InitWebSocketRedisRelay(ok) ==
    /\ redis.pc \in {"status", "complete"}
    /\ redis' = initWebSocketRedisRelay(redis, ok)
    /\ BootFrame("initWebSocketRedisRelay", ok)
    /\ UNCHANGED routeVars

\* The gateway is listening before initializeServices() starts.
InitBoot ==
    /\ InitGateway
    /\ redis = RedisStart
    /\ InitRoutes

NextBoot ==
    \/ Next
    \/ \E ok \in BOOLEAN : InitRedis(ok)
    \/ \E ok \in BOOLEAN : InitWebSocketRedisRelay(ok)

SpecBoot == InitBoot /\ [][NextBoot]_vars

\* --------------------------------------------------------------- job store
\* createJob: insert a row with status "pending"; the table assigns the id.
NewId(table) == Cardinality(DOMAIN table) + 1

createJob(table, model) ==
    [k \in DOMAIN table \cup {NewId(table)} |->
        IF k \in DOMAIN table THEN table[k]
        ELSE [status |-> "pending", error_message |-> NoError, selected_model |-> model]]

\* updateJobStatus(jobId, status, undefined, errorMessage): error_message is written only
\* when errorMessage is truthy; a jobId without a row updates nothing. No other column is
\* written (updated_at is not modelled).
updateJobStatus(table, jobId, status, errorMessage) ==
    IF jobId \notin DOMAIN table THEN table
    ELSE [table EXCEPT ![jobId].status = status,
                       ![jobId].error_message =
                            IF errorMessage # NoError THEN errorMessage ELSE @]

\* A store call that may fail: on a database error the table is left as it was.
StoreWrite(table, jobId, status, errorMessage, ok) ==
    IF ok THEN updateJobStatus(table, jobId, status, errorMessage) ELSE table

\* ------------------------------------------------------------------ queue
\* Mutant of pushJobToQueue: the push also needs the status subscription.
pushJobToQueueWhenSubscribed(r, q, job) ==
    IF r.publisher /\ r.status THEN [ok |-> TRUE, queue |-> Append(q, job)]
    ELSE [ok |-> FALSE, queue |-> q]

\* pushJobToQueue: lPush on the publisher client; it throws unless the client is connected.
pushJobToQueue(r, q, job) ==
    IF r.publisher THEN [ok |-> TRUE, queue |-> Append(q, job)]
    ELSE [ok |-> FALSE, queue |-> q]

\* ----------------------------------------------------------------- routes
\* isValidModel(modelId)
isValidModel(modelId) == modelId \in AvailableModels

\* `model_id && isValidModel(model_id) ? model_id : fallback` of submit (fallback is
\* getDefaultModel().id) and of retry (fallback is job.selected_model).
selectedModel(model_id, fallback) ==
    IF model_id # NoModel /\ isValidModel(model_id) THEN model_id ELSE fallback

\* `if (job.status !== "failed")` of the retry route.
retryAllowed(row) == row.status = "failed"

\* Mutant of cancelAllowed: the status check is missing.
cancelAllowedAlways(row) == TRUE

\* `if (job.status === "completed")` of the cancel route.
cancelAllowed(row) == row.status # "completed"

\* The error_message each route stores when the push fails.
QueueError(route) == IF route = "submit" THEN "Failed to queue job" ELSE "Failed to re-queue job"

\* What a route step leaves of the other variables; `data` records the step.
RouteFrame(op, jobId, data) ==
    /\ last' = [op |-> op, ws |-> 0, job_id |-> jobId, data |-> data, again |-> FALSE]
    /\ UNCHANGED <<jobSubscriptions, allConnections, readyState, cleaned, sent, pre, redis>>

\* What a step tells about itself: the request slot, the route, whether the awaited call
\* went through, and the HTTP status of the response (0 while the request goes on).
Step(r, route, ok, code) == [req |-> r, route |-> route, ok |-> ok, code |-> code]

\* POST /repos up to the end of `await createJob(...)`.
PostRepos(r, valid, model_id, ok) ==
    /\ reqs[r] = Idle
    /\ IF ~valid
       THEN /\ UNCHANGED routeVars
            /\ RouteFrame("createJob", NoJobId, Step(r, "submit", FALSE, 400))
       ELSE IF ~ok
       THEN /\ UNCHANGED routeVars
            /\ RouteFrame("createJob", NoJobId, Step(r, "submit", FALSE, 500))
       ELSE /\ NewId(jobs) \in RowIds
            /\ jobs' = createJob(jobs, selectedModel(model_id, DefaultModel))
            /\ reqs' = [reqs EXCEPT ![r] =
                    [Request("submit", "updateJobStatus", NewId(jobs), "pending", "none")
                        EXCEPT !.selectedModel = selectedModel(model_id, DefaultModel)]]
            /\ UNCHANGED queue
            /\ RouteFrame("createJob", NewId(jobs), Step(r, "submit", TRUE, 0))

\* POST /repos/:jobId/retry up to the end of `await getJob(jobId)` and the status check.
PostRetry(r, jobId, model_id, ok) ==
    /\ reqs[r] = Idle
    /\ UNCHANGED <<jobs, queue>>
    /\ IF ~ok \/ jobId \notin DOMAIN jobs
       THEN /\ UNCHANGED reqs
            /\ RouteFrame("getJob", jobId, Step(r, "retry", FALSE, 404))
       ELSE IF ~retryAllowed(jobs[jobId])
       THEN /\ UNCHANGED reqs
            /\ RouteFrame("getJob", jobId, Step(r, "retry", TRUE, 400))
       ELSE /\ reqs' = [reqs EXCEPT ![r] =
                    [Request("retry", "updateJobStatus", jobId, jobs[jobId].status, "none")
                        EXCEPT !.selectedModel =
                            selectedModel(model_id, jobs[jobId].selected_model)]]
            /\ RouteFrame("getJob", jobId, Step(r, "retry", TRUE, 0))

\* `await updateJobStatus(job.id, "processing")` of submit and retry; the result is ignored.
SetProcessing(r, ok) ==
    /\ reqs[r].pc = "updateJobStatus"
    /\ jobs' = StoreWrite(jobs, reqs[r].job, "processing", NoError, ok)
    /\ reqs' = [reqs EXCEPT ![r].pc = "pushJobToQueue",
                            ![r].update = IF ok THEN "ok" ELSE "error"]
    /\ UNCHANGED queue
    /\ RouteFrame("updateJobStatus", reqs[r].job, Step(r, reqs[r].route, ok, 0))

\* `await pushJobToQueue(...)` of submit and retry: the success response, or the catch.
Push(r) ==
    /\ reqs[r].pc = "pushJobToQueue"
    /\ redis.publisher => Len(queue) < MaxQueue
    /\ LET res == pushJobToQueue(redis, queue,
                    [job_id |-> reqs[r].job, selected_model |-> reqs[r].selectedModel]) IN
        /\ queue' = res.queue
        /\ reqs' = [reqs EXCEPT ![r] = IF res.ok THEN Idle ELSE [@ EXCEPT !.pc = "markFailed"]]
        /\ RouteFrame("pushJobToQueue", reqs[r].job,
                      Step(r, reqs[r].route, res.ok, IF res.ok THEN 200 ELSE 0))
    /\ UNCHANGED jobs

\* The catch of submit and retry: `await updateJobStatus(id, "failed", undefined, msg)`,
\* result ignored, then the 500 response.
MarkFailed(r, ok) ==
    /\ reqs[r].pc = "markFailed"
    /\ jobs' = StoreWrite(jobs, reqs[r].job, "failed", QueueError(reqs[r].route), ok)
    /\ reqs' = [reqs EXCEPT ![r] = Idle]
    /\ UNCHANGED queue
    /\ RouteFrame("markFailed", reqs[r].job, Step(r, reqs[r].route, ok, 500))

\* DELETE /jobs/:jobId up to the end of `await getJob(jobId)` and the status check.
DeleteJob(r, jobId, ok) ==
    /\ reqs[r] = Idle
    /\ UNCHANGED <<jobs, queue>>
    /\ IF ~ok \/ jobId \notin DOMAIN jobs
       THEN /\ UNCHANGED reqs
            /\ RouteFrame("getJob", jobId, Step(r, "cancel", FALSE, 404))
       ELSE IF ~cancelAllowed(jobs[jobId])
       THEN /\ UNCHANGED reqs
            /\ RouteFrame("getJob", jobId, Step(r, "cancel", TRUE, 400))
       ELSE /\ reqs' = [reqs EXCEPT ![r] =
                    Request("cancel", "cancel", jobId, jobs[jobId].status, "none")]
            /\ RouteFrame("getJob", jobId, Step(r, "cancel", TRUE, 0))

\* `await updateJobStatus(jobId, "failed", undefined, "Job cancelled by user")` of the cancel
\* route, result ignored, then the success response.
Cancel(r, ok) ==
    /\ reqs[r].pc = "cancel"
    /\ jobs' = StoreWrite(jobs, reqs[r].job, "failed", "Job cancelled by user", ok)
    /\ reqs' = [reqs EXCEPT ![r] = Idle]
    /\ UNCHANGED queue
    /\ RouteFrame("cancel", reqs[r].job, Step(r, "cancel", ok, 200))

\* The worker, a separate program: it takes the oldest descriptor off the list and, when it
\* is done, stores the outcome in the job's row.
Worker(status) ==
    /\ queue # <<>>
    /\ queue' = Tail(queue)
    /\ jobs' = updateJobStatus(jobs, Head(queue).job_id, status,
                               IF status = "failed" THEN "Analysis failed" ELSE NoError)
    /\ UNCHANGED reqs
    /\ RouteFrame("worker", Head(queue).job_id, Step(0, "worker", TRUE, 0))

NextRoutes ==
    \/ \E r \in Reqs, valid, ok \in BOOLEAN, model_id \in ModelIds :
            PostRepos(r, valid, model_id, ok)
    \/ \E r \in Reqs, jobId \in RowIds, ok \in BOOLEAN, model_id \in ModelIds :
            PostRetry(r, jobId, model_id, ok)
    \/ \E r \in Reqs, ok \in BOOLEAN : SetProcessing(r, ok)
    \/ \E r \in Reqs : Push(r)
    \/ \E r \in Reqs, ok \in BOOLEAN : MarkFailed(r, ok)
    \/ \E r \in Reqs, jobId \in RowIds, ok \in BOOLEAN : DeleteJob(r, jobId, ok)
    \/ \E r \in Reqs, ok \in BOOLEAN : Cancel(r, ok)
    \/ \E status \in {"completed", "failed"} : Worker(status)
    \/ \E ok \in BOOLEAN : InitRedis(ok)
    \/ \E ok \in BOOLEAN : InitWebSocketRedisRelay(ok)

\* The HTTP routes and the job store, from the moment the server listens.
SpecRoutes == InitBoot /\ [][NextRoutes]_vars

\* getConnectionStats()
getConnectionStats ==
    [total |-> Cardinality(allConnections),
     jobSubscriptions |-> Cardinality(DOMAIN jobSubscriptions)]

\* ------------------------------------------------------------------ claims
\* What the last handler was about.
LastJob == last.job_id

LastWs == last.ws

\* The handles registered under jobId before / after the last handler.
Before(jobId) == Get(pre, jobId)

After(jobId) == Get(jobSubscriptions, jobId)

\* C1 (as stated): when a StatusEvent for job J is forwarded, every observer registered for
\* J gets exactly one "status" message with job_id J carrying the event, and every other
\* observer gets nothing.
C1_StatusToEveryRegistered ==
    last.op = "status" =>
        \A w \in WS :
            IF w \in After(LastJob)
            THEN sent[w] = <<[type |-> "status", job_id |-> LastJob, data |-> last.data]>>
            ELSE sent[w] = <<>>

\* C1 (amended): when a StatusEvent for job J is forwarded, ws.send is called exactly once,
\* with the "status" message for J carrying the event, for every observer registered for J
\* whose readyState is OPEN; a registered observer that is not OPEN and every observer not
\* registered for J get nothing.
C1_StatusToEveryOpenRegistered ==
    last.op = "status" =>
        \A w \in WS :
            IF w \in After(LastJob) /\ readyState[w] = OPEN
            THEN sent[w] = <<[type |-> "status", job_id |-> LastJob, data |-> last.data]>>
            ELSE sent[w] = <<>>

\* C1 witness: a status event for a job with an open subscriber that got it, while an
\* observer registered only for another job got nothing.
C1_Witness ==
    /\ last.op = "status"
    /\ \E w, o \in WS :
        /\ w \in After(LastJob) /\ Len(sent[w]) = 1
        /\ o \notin After(LastJob) /\ sent[o] = <<>>
        /\ \E k \in DOMAIN jobSubscriptions : k # LastJob /\ o \in jobSubscriptions[k]

\* C2 (as stated): when a CompletionEvent for job J is forwarded, every observer registered
\* for J gets exactly one "complete" message with job_id J, and no other observer gets it.
C2_CompleteToEveryRegistered ==
    last.op = "complete" =>
        \A w \in WS :
            IF w \in After(LastJob)
            THEN sent[w] = <<[type |-> "complete", job_id |-> LastJob, data |-> last.data]>>
            ELSE sent[w] = <<>>

\* C2 (amended): when a CompletionEvent for job J is forwarded, ws.send is called exactly
\* once, with the "complete" message for J, for every observer registered for J whose
\* readyState is OPEN; every other observer gets nothing.
C2_CompleteToEveryOpenRegistered ==
    last.op = "complete" =>
        \A w \in WS :
            IF w \in After(LastJob) /\ readyState[w] = OPEN
            THEN sent[w] = <<[type |-> "complete", job_id |-> LastJob, data |-> last.data]>>
            ELSE sent[w] = <<>>

\* C2 witness: a completion event delivered to both subscribers of its job.
C2_Witness ==
    /\ last.op = "complete"
    /\ \E w, o \in WS :
        /\ w # o
        /\ {w, o} \subseteq After(LastJob)
        /\ Len(sent[w]) = 1 /\ Len(sent[o]) = 1

\* C3: every "status" or "complete" message handed to an observer stems from the bus event
\* being forwarded, carries that event's job id, goes to a member of that job's subscriber
\* set, and is handed over at most once.
C3_NeverWrongJobAtMostOnce ==
    \A w \in WS :
        \A i \in 1..Len(sent[w]) :
            sent[w][i].type \in {"status", "complete"} =>
                /\ last.op = sent[w][i].type
                /\ sent[w][i].job_id = LastJob
                /\ sent[w][i].data = last.data
                /\ sent[w][i].data.job_id = sent[w][i].job_id
                /\ w \in Before(sent[w][i].job_id)
                /\ Len(sent[w]) = 1

\* C3 witness: an event reached a subscriber of its job while a subscriber of another job,
\* not subscribed to this one, got nothing.
C3_Witness ==
    /\ last.op \in {"status", "complete"}
    /\ \E w, o \in WS :
        /\ Len(sent[w]) = 1
        /\ o \notin Before(LastJob)
        /\ \E k \in DOMAIN pre : o \in pre[k]
        /\ sent[o] = <<>>

\* C4: every key of jobSubscriptions maps to a non-empty set, and an unsubscribe that
\* removes the last observer of J removes the key J.
C4_NoDanglingKeys ==
    /\ DOMAIN jobSubscriptions \subseteq JobIds
    /\ \A j \in DOMAIN jobSubscriptions : jobSubscriptions[j] # {}
    /\ (last.op = "unsubscribe" /\ Truthy(LastJob) /\ Before(LastJob) = {LastWs})
            => ~Has(jobSubscriptions, LastJob)

\* C4 witness: the sole subscriber of J has just unsubscribed from J.
C4_Witness ==
    /\ last.op = "unsubscribe"
    /\ Has(pre, LastJob)
    /\ pre[LastJob] = {LastWs}
    /\ ~Has(jobSubscriptions, LastJob)

\* C5: subscribe adds O to J's set and nothing else; subscribing an observer that is
\* already in J's set leaves the registry as it was (size 1 when O is the only subscriber);
\* subscribing to an absent job id creates its set.
C5_SubscribeIdempotent ==
    (last.op = "subscribe" /\ Truthy(LastJob)) =>
        /\ Has(jobSubscriptions, LastJob)
        /\ After(LastJob) = Before(LastJob) \cup {LastWs}
        /\ LastWs \in Before(LastJob) => jobSubscriptions = pre
        /\ Before(LastJob) = {LastWs} => Cardinality(After(LastJob)) = 1
        /\ ~Has(pre, LastJob) => After(LastJob) = {LastWs}

\* C5 witness: O was already subscribed to J, next to another observer, and subscribed
\* again.
C5_Witness ==
    /\ last.op = "subscribe"
    /\ LastWs \in Before(LastJob)
    /\ Cardinality(Before(LastJob)) = 2
    /\ jobSubscriptions = pre

\* C6: cleanupConnection removes O from the set of every job id in one call, deletes every
\* key whose set becomes empty, leaves the other observers' memberships as they were, and
\* changes nothing when O has no subscription.
C6_CleanupRemovesEverywhere ==
    last.op \in {"close", "error"} =>
        /\ \A j \in JobIds : After(j) = Before(j) \ {LastWs}
        /\ DOMAIN jobSubscriptions = {j \in DOMAIN pre : pre[j] \ {LastWs} # {}}
        /\ (\A j \in DOMAIN pre : LastWs \notin pre[j]) => jobSubscriptions = pre

\* C6 witness: the cleaned-up observer was subscribed to two job ids, alone under one of
\* them and next to another observer under the other.
C6_Witness ==
    /\ last.op \in {"close", "error"}
    /\ \E j, k \in DOMAIN pre :
        /\ j # k
        /\ pre[j] = {LastWs}
        /\ LastWs \in pre[k]
        /\ pre[k] # {LastWs}
        /\ ~Has(jobSubscriptions, j)
        /\ Has(jobSubscriptions, k)

\* C7: once a connection has closed it is in no job's subscriber set, a job it was the sole
\* subscriber of is no longer a key, and nothing is handed to it by any later handler.
C7_ClosedConnectionGone ==
    /\ \A w \in WS :
        readyState[w] = CLOSED =>
            /\ \A j \in DOMAIN jobSubscriptions : w \notin jobSubscriptions[j]
            /\ sent[w] = <<>>
    /\ last.op = "close" =>
        \A j \in DOMAIN pre : pre[j] = {LastWs} => ~Has(jobSubscriptions, j)

\* C7 witness: a connection subscribed to two job ids has just closed.
C7_Witness ==
    /\ last.op = "close"
    /\ readyState[LastWs] = CLOSED
    /\ Cardinality({j \in DOMAIN pre : LastWs \in pre[j]}) >= 2

\* C8 (as stated): the cleanup runs exactly once per connection, whether closure is
\* signalled by the close event, the error event, or both: a closed connection has been
\* cleaned up, and no cleanup runs for a connection that was already cleaned up.
C8_CleanupExactlyOnce ==
    /\ \A w \in WS : readyState[w] = CLOSED => w \in cleaned
    /\ last.op \in {"close", "error"} => ~last.again

\* C9: a subscribe message with job id J from O puts O in J's set, and exactly one
\* "subscribed" acknowledgment with job id J is handed to O and nothing to anyone else.
C9_SubscribeAcked ==
    (last.op = "subscribe" /\ Truthy(LastJob)) =>
        /\ LastWs \in After(LastJob)
        /\ sent[LastWs] = <<[type |-> "subscribed", job_id |-> LastJob,
                             message |-> <<"Subscribed to job ", LastJob>>]>>
        /\ \A o \in WS \ {LastWs} : sent[o] = <<>>

\* C9 witness: O subscribed to a job that another open connection is subscribed to.
C9_Witness ==
    /\ last.op = "subscribe"
    /\ Len(sent[LastWs]) = 1
    /\ \E o \in WS \ {LastWs} : o \in Before(LastJob) /\ readyState[o] = OPEN

\* C10: unsubscribe(J, O) removes O from J's set only: every other job id keeps its key and
\* its set, the other members of J's set stay, nothing is sent, and the registry is
\* unchanged when J is absent or does not contain O.
C10_UnsubscribeFrame ==
    (last.op = "unsubscribe" /\ Truthy(LastJob)) =>
        /\ \A k \in JobIds \ {LastJob} :
            Has(jobSubscriptions, k) = Has(pre, k) /\ After(k) = Before(k)
        /\ After(LastJob) = Before(LastJob) \ {LastWs}
        /\ \A w \in WS : sent[w] = <<>>
        /\ LastWs \notin Before(LastJob) => jobSubscriptions = pre

\* C10 witness: O left a job that keeps another member while another job id has a set.
C10_Witness ==
    /\ last.op = "unsubscribe"
    /\ LastWs \in Before(LastJob)
    /\ After(LastJob) # {}
    /\ \E k \in DOMAIN pre : k # LastJob

\* C11: an open observer that sends ping is handed exactly one "pong", which carries no
\* job_id, and no other connection is handed anything.
C11_PingPong ==
    last.op = "ping" =>
        /\ Len(sent[LastWs]) = 1
        /\ sent[LastWs][1].type = "pong"
        /\ DOMAIN sent[LastWs][1] = {"type"}
        /\ \A o \in WS \ {LastWs} : sent[o] = <<>>

\* C11 witness: a ping that itself carries a job id was answered while another connection
\* is open and subscribed to that job.
C11_Witness ==
    /\ last.op = "ping"
    /\ Truthy(LastJob)
    /\ Len(sent[LastWs]) = 1
    /\ \E o \in WS \ {LastWs} : o \in After(LastJob) /\ readyState[o] = OPEN

\* C12: handling a ping leaves jobSubscriptions and allConnections unchanged.
C12_PingFrame ==
    [][last'.op = "ping" =>
          /\ jobSubscriptions' = jobSubscriptions
          /\ allConnections' = allConnections]_vars

\* C12 witness: a ping carrying a job id its sender is not subscribed to was handled while
\* the registry holds another subscription.
C12_Witness ==
    /\ last.op = "ping"
    /\ Truthy(LastJob)
    /\ LastWs \notin After(LastJob)
    /\ LastWs \in allConnections
    /\ jobSubscriptions = pre
    /\ DOMAIN jobSubscriptions # {}

\* A dropped control message: a frame the body schema rejects, or a subscribe or
\* unsubscribe without a job_id.
Dropped(l) ==
    \/ l.op = "rejected"
    \/ l.op \in {"subscribe", "unsubscribe"} /\ l.job_id = NoJobId

C14_SendBestEffort ==
    /\ \A w \in WS : readyState[w] # OPEN => sent[w] = <<>>
    /\ last.op \in {"status", "complete"} => jobSubscriptions = pre

\* C14 witness: an event was forwarded to a job with one subscriber that is not OPEN, which
\* got nothing and stays registered, and one that is OPEN, which got the message.
C14_Witness ==
    /\ last.op \in {"status", "complete"}
    /\ \E w, o \in After(LastJob) :
        /\ readyState[w] = CLOSING /\ sent[w] = <<>>
        /\ readyState[o] = OPEN /\ Len(sent[o]) = 1

\* C19 (as stated): getConnectionStats().total is the number of connections that were
\* opened and have not yet closed, and getConnectionStats().jobSubscriptions is the number
\* of job ids with at least one subscribed observer.
C19_StatsMatch ==
    /\ getConnectionStats.total =
            Cardinality({w \in WS : readyState[w] \in {OPEN, CLOSING}})
    /\ getConnectionStats.jobSubscriptions =
            Cardinality({j \in JobIds : \E w \in WS : w \in After(j)})

\* C20: an event for a job id without a key, as is every job id that was never subscribed
\* to, is handed to no observer and creates no key; a key only ever appears by a subscribe
\* to that job id.
C20_NeverSubscribedEmpty ==
    /\ [](last.op \in {"status", "complete"} /\ ~Has(pre, LastJob) =>
            sent = NoSends /\ ~Has(jobSubscriptions, LastJob))
    /\ [][\A j \in JobIds :
            ~Has(jobSubscriptions, j) /\ Has(jobSubscriptions', j) =>
                last'.op = "subscribe" /\ last'.job_id = j]_vars

\* C20 witness: an event for a job id without a key reached nobody although another job id
\* has an open subscriber.
C20_Witness ==
    /\ last.op \in {"status", "complete"}
    /\ ~Has(jobSubscriptions, LastJob)
    /\ sent = NoSends
    /\ \E k \in DOMAIN jobSubscriptions : \E w \in jobSubscriptions[k] : readyState[w] = OPEN

\* C18: whatever initializeServices() came to, the gateway accepts connections and handles
\* subscribe, unsubscribe, ping and close with their usual registry effects and replies,
\* and a "status" ("complete") message is handed to an observer only while the relay is
\* subscribed to the status (completion) channel.
C18_RelayFailureNotFatal ==
    /\ \A w \in WS : \A i \in 1..Len(sent[w]) :
        /\ sent[w][i].type = "status" => redis.status
        /\ sent[w][i].type = "complete" => redis.complete
    /\ last.op = "open" => LastWs \in allConnections /\ readyState[LastWs] = OPEN
    /\ last.op = "subscribe" /\ Truthy(LastJob) =>
        /\ After(LastJob) = Before(LastJob) \cup {LastWs}
        /\ \A k \in JobIds \ {LastJob} : After(k) = Before(k)
        /\ sent = [NoSends EXCEPT ![LastWs] = <<SubscribedOut(LastJob)>>]
    /\ last.op = "unsubscribe" /\ Truthy(LastJob) =>
        /\ After(LastJob) = Before(LastJob) \ {LastWs}
        /\ \A k \in JobIds \ {LastJob} : After(k) = Before(k)
        /\ sent = NoSends
    /\ last.op = "ping" =>
        /\ jobSubscriptions = pre
        /\ sent = [NoSends EXCEPT ![LastWs] = <<PongOut>>]
    /\ last.op = "close" =>
        /\ LastWs \notin allConnections
        /\ \A k \in JobIds : After(k) = Before(k) \ {LastWs}
        /\ sent = NoSends

\* C18 witness: after initialisation failed with no channel subscribed, a connection
\* subscribed to a job and got its acknowledgement while another connection is open.
C18_Witness ==
    /\ redis.pc \in {"degraded", "relayFailed"}
    /\ ~redis.status /\ ~redis.complete
    /\ last.op = "subscribe"
    /\ Truthy(LastJob)
    /\ LastWs \in After(LastJob)
    /\ Len(sent[LastWs]) = 1
    /\ \E o \in WS \ {LastWs} : readyState[o] = OPEN

\* The steps of the submit, retry and cancel routes.
RouteOps == {"createJob", "getJob", "updateJobStatus", "pushJobToQueue", "markFailed", "cancel"}

\* The request that took the last step, as it was before the step.
Acting == reqs[last'.data.req]

\* C15 (as stated): when the push of the descriptor has failed during submit or retry, the
\* job's stored status is "failed" with a non-empty error message once the route has
\* answered, and the answer is an error.
C15_EnqueueFailureMarksFailed ==
    last.op = "markFailed" =>
        /\ jobs[LastJob].status = "failed"
        /\ jobs[LastJob].error_message # NoError
        /\ last.data.code = 500

\* The edges of pending -> processing -> {completed | failed}.
Lifecycle ==
    {<<"pending", "processing">>, <<"processing", "completed">>, <<"processing", "failed">>}

Degraded == redis.pc \in {"degraded", "relayFailed"}

\* C17 (as stated): in degraded mode the push of POST /repos still goes through and the
\* request succeeds.
C17_SubmitSucceedsDegraded ==
    last.op = "pushJobToQueue" /\ last.data.route = "submit" /\ Degraded =>
        last.data.ok /\ last.data.code = 200

\* C17: POST /repos has written its row whatever the Redis state, and its push goes
\* through, and the request succeeds, exactly when the publisher client is connected; the
\* subscriptions play no part, and without the publisher the route goes on to mark the job
\* failed and answers 500.
C17_SubmitNeedsPublisherOnly ==
    /\ last.op = "pushJobToQueue" /\ last.data.route = "submit" =>
        /\ LastJob \in DOMAIN jobs
        /\ last.data.ok <=> redis.publisher
        /\ last.data.ok =>
            /\ last.data.code = 200
            /\ queue # <<>> /\ queue[Len(queue)].job_id = LastJob
            /\ reqs[last.data.req] = Idle
        /\ ~last.data.ok => reqs[last.data.req].pc = "markFailed"
    /\ last.op = "markFailed" => last.data.code = 500

\* C17 witness: the relay is not subscribed (initialisation gave up after the publisher
\* connected) and a POST /repos has just pushed its descriptor and succeeded.
C17_Witness ==
    /\ Degraded
    /\ ~redis.status /\ ~redis.complete
    /\ redis.publisher
    /\ last.op = "pushJobToQueue"
    /\ last.data.route = "submit"
    /\ last.data.ok
    /\ jobs[LastJob].status = "processing"

\* C21: subscribing a connection to a job leaves it in the Set of every other job it is
\* registered under, and an open connection registered under the job of an event is handed
\* that event whatever else it is registered under.
C21_SeveralJobsAtOnce ==
    /\ last.op = "subscribe" /\ Truthy(LastJob) =>
        \A k \in JobIds \ {LastJob} : After(k) = Before(k)
    /\ last.op \in {"status", "complete"} =>
        \A w \in After(LastJob) : readyState[w] = OPEN => Len(sent[w]) = 1

\* C21 witness: a connection already registered under one job has just subscribed to a
\* second one and is registered under both.
C21_Witness ==
    /\ last.op = "subscribe"
    /\ Truthy(LastJob)
    /\ LastWs \notin Before(LastJob)
    /\ LastWs \in After(LastJob)
    /\ \E k \in JobIds \ {LastJob} : LastWs \in Before(k) /\ LastWs \in After(k)

\* The Set of every key is non-empty.
NoEmptyKeys(subs) == \A k \in DOMAIN subs : subs[k] # {}

\* C22: a StatusEvent for J is forwarded in one piece: it leaves the registry as it was,
\* with no empty key, every open member of J is handed the event once and everybody else
\* nothing; a connection that unsubscribed from J or closed in the step before is handed
\* nothing while the other members are served, and an unsubscribe or close in the step
\* after removes just that connection and leaves no empty key.
C22_DeliveryRace ==
    /\ [](last.op = "status" =>
            /\ jobSubscriptions = pre
            /\ NoEmptyKeys(jobSubscriptions)
            /\ \A w \in WS :
                IF w \in After(LastJob) /\ readyState[w] = OPEN
                THEN Len(sent[w]) = 1 /\ sent[w][1].job_id = LastJob
                ELSE sent[w] = <<>>)
    /\ [][last.op \in {"unsubscribe", "close"} /\ last'.op = "status"
            /\ (last.op = "unsubscribe" => last.job_id = last'.job_id) =>
                /\ sent'[last.ws] = <<>>
                /\ \A w \in Get(jobSubscriptions, last'.job_id) :
                    readyState[w] = OPEN => Len(sent'[w]) = 1]_vars
    /\ [][last.op = "status" /\ last'.op \in {"unsubscribe", "close"} =>
            /\ NoEmptyKeys(jobSubscriptions')
            /\ \A k \in JobIds :
                Get(jobSubscriptions', k) \in
                    {Get(jobSubscriptions, k), Get(jobSubscriptions, k) \ {last'.ws}}
            /\ last'.op = "close" =>
                \A k \in JobIds : last'.ws \notin Get(jobSubscriptions', k)
            /\ last'.op = "unsubscribe" /\ Truthy(last'.job_id) =>
                last'.ws \notin Get(jobSubscriptions', last'.job_id)]_vars

\* C22 witness: a StatusEvent for J was forwarded to an open member of J after another
\* connection, which had been opened, was closed.
C22_Witness ==
    /\ last.op = "status"
    /\ \E w \in After(LastJob) : Len(sent[w]) = 1
    /\ \E o \in WS : readyState[o] = CLOSED /\ sent[o] = <<>>
    /\ \E k \in DOMAIN jobSubscriptions : k # LastJob

\* C24 (as stated): a membership is removed only by the member's own unsubscribe for that
\* job or by the close of the member's connection.
C24_RemovedOnlyByOwner ==
    [][\A j \in JobIds : \A w \in Get(jobSubscriptions, j) :
            w \notin Get(jobSubscriptions', j) =>
                /\ last'.ws = w
                /\ \/ last'.op = "close"
                   \/ last'.op = "unsubscribe" /\ last'.job_id = j]_vars

\* C26 (as stated): once cleanupConnection has run for a connection it is closed for good:
\* it is in neither allConnections nor any Set, and no message from it changes the registry.
C26_ClosedIsTerminal ==
    /\ \A w \in cleaned :
        /\ readyState[w] = CLOSED
        /\ w \notin allConnections
        /\ \A j \in JobIds : w \notin After(j)
    /\ last.op \in {"subscribe", "unsubscribe"} /\ LastWs \in cleaned => jobSubscriptions = pre

\* C30 (as stated): every member of a job's Set is a member of allConnections.
C30_SubscribersAreConnections ==
    \A j \in DOMAIN jobSubscriptions : jobSubscriptions[j] \subseteq allConnections

\* C27: when ws.send throws for an observer of J, or an observer of J is not OPEN, every
\* open observer of J is still handed the event (ws.send is called for it once), and the
\* relay goes on to forward the next event.
C27_SendFailureIsolated ==
    /\ last.op \in {"status", "complete"} =>
        \A w \in After(LastJob) :
            readyState[w] = OPEN => Len(sent[w]) = 1 /\ sent[w][1].type = last.op
    /\ last.op \in {"status", "complete"} /\ last.threw # {} =>
        /\ jobSubscriptions = pre
        /\ \A status \in StatusMessages : ENABLED HandleStatusUpdate(status, {})
        /\ \A complete \in CompleteMessages : ENABLED HandleCompleteUpdate(complete, {})

\* C27 witness: ws.send threw for one open observer of J and another open observer of J
\* was handed the event.
C27_Witness ==
    /\ last.op = "status"
    /\ last.threw # {}
    /\ \E w \in After(LastJob) \ last.threw : readyState[w] = OPEN /\ Len(sent[w]) = 1
    /\ \E t \in last.threw : \E w \in After(LastJob) \ last.threw : t < w

\* C28 (as stated): the retry route writes "processing" only over a row whose stored status
\* is "failed"; for a job in another status it answers 400, for an unknown job id 404, and
\* in both cases it changes neither the store nor the queue and goes no further.
C28_OnlyFailedRetried ==
    /\ [][last'.op = "updateJobStatus" /\ last'.data.route = "retry" =>
            jobs[last'.job_id].status = "failed"]_vars
    /\ [][last'.op = "getJob" /\ last'.data.route = "retry" =>
            IF last'.job_id \notin DOMAIN jobs
            THEN last'.data.code = 404 /\ UNCHANGED routeVars
            ELSE jobs[last'.job_id].status # "failed" =>
                    /\ last'.data.code \in {400, 404}
                    /\ last'.data.ok => last'.data.code = 400
                    /\ UNCHANGED routeVars]_vars

\* C29 (as stated): the cancel route stores "failed" with "Job cancelled by user" for a job
\* whose stored status is pending or processing, and leaves a job in any other status as
\* it is.
C29_CancelOnlyPendingOrProcessing ==
    [][last'.op \in {"getJob", "cancel"} /\ last'.data.route = "cancel"
            /\ last'.job_id \in DOMAIN jobs =>
        IF jobs[last'.job_id].status \in {"pending", "processing"}
        THEN last'.op = "cancel" /\ last'.data.ok =>
                /\ jobs'[last'.job_id].status = "failed"
                /\ jobs'[last'.job_id].error_message = "Job cancelled by user"
        ELSE jobs' = jobs]_vars

EventOut(l) == IF l.op = "status" THEN StatusOut(l.data) ELSE CompleteOut(l.data)

\* C25: every `status` or `complete` message handed to ws.send is the event the bus
\* callback is handling at that moment (none is kept back or sent again later), and of two
\* events of one channel for J handled one after the other, an observer that is OPEN and
\* subscribed to J is handed the first in the first step and the second in the second.
C25_PerTopicOrder ==
    /\ [](\A w \in WS : \A i \in 1..Len(sent[w]) :
            sent[w][i].type \in {"status", "complete"} =>
                last.op = sent[w][i].type /\ sent[w][i] = EventOut(last))
    /\ [][last.op \in {"status", "complete"} /\ last'.op = last.op
            /\ last'.job_id = last.job_id =>
                \A w \in Get(jobSubscriptions, last.job_id) :
                    readyState[w] = OPEN =>
                        sent[w] = <<EventOut(last)>> /\ sent'[w] = <<EventOut(last')>>]_vars

\* C25 witness: two different status events for J were handled one after the other and an
\* open observer of J has just been handed the second.
C25_Witness ==
    /\ last.op = "status"
    /\ last.prev \notin {NoData, last.data}
    /\ \E w \in After(LastJob) : readyState[w] = OPEN /\ sent[w] = <<StatusOut(last.data)>>

\* C31 (as stated): of two overlapping retry requests for one failed job only one gets past
\* the status test: when a retry pushes its descriptor, no other retry of that job is
\* between its status test and its own push (nothing on that path can still reject it).
C31_ConcurrentRetriesEnqueueOnce ==
    [][last'.op = "pushJobToQueue" /\ last'.data.route = "retry" /\ last'.data.ok =>
        \A r \in Reqs \ {last'.data.req} :
            ~(reqs[r].route = "retry" /\ reqs[r].job = last'.job_id
                /\ reqs[r].pc \in {"updateJobStatus", "pushJobToQueue"})]_vars

\* C32 (as stated): whenever submit or retry pushes a descriptor for J, the stored status
\* of J is "processing" at the push, whatever a cancel did in between and whether or not
\* the update before the push went through.
C32_ProcessingAtPush ==
    [][last'.op = "pushJobToQueue" /\ last'.data.ok =>
        jobs[last'.job_id].status = "processing"]_vars

\* C33 (as stated): once initializeServices() is over, the relay is subscribed to both
\* channels or to neither; status events are never forwarded to observers while
\* completion events are not.
C33_BothOrNeither ==
    /\ redis.pc \in {"ready", "relayFailed", "degraded"} =>
        (redis.status <=> redis.complete)
    /\ last.op = "status" /\ redis.pc # "complete" => redis.complete

\* C34: cleanupConnection is idempotent: applied to any registry the program reaches, a
\* second run for the same connection gives what the first run gave, and an error or close
\* handler that runs right after an error handler of the same connection leaves
\* jobSubscriptions and allConnections as the first left them.
C34_CleanupIdempotent ==
    /\ [](\A w \in WS :
            /\ cleanupSubscriptions(cleanupSubscriptions(jobSubscriptions, w), w)
                    = cleanupSubscriptions(jobSubscriptions, w)
            /\ (allConnections \ {w}) \ {w} = allConnections \ {w})
    /\ [][last.op \in {"error", "close"} /\ last'.op \in {"error", "close"}
            /\ last'.ws = last.ws =>
                jobSubscriptions' = jobSubscriptions /\ allConnections' = allConnections]_vars

\* C34 witness: the close handler has run for a connection whose cleanup had already run
\* and which was in no Set and not in allConnections; the registry, which holds the
\* subscriptions of another connection, is as it was.
C34_Witness ==
    /\ last.op = "close"
    /\ last.again
    /\ \A j \in JobIds : LastWs \notin Before(j)
    /\ jobSubscriptions = pre
    /\ Cardinality(DOMAIN jobSubscriptions) = 2
    /\ allConnections # {}

\* C35: a bus message whose payload cannot be parsed is dropped: nothing is handed to
\* ws.send, the registry and the connections are as they were, the channel stays
\* subscribed, and a valid message that follows on that channel is forwarded to every open
\* observer of its job.
C35_UnparsableDropped ==
    /\ [](last.op = "parseError" =>
            /\ sent = NoSends
            /\ jobSubscriptions = pre
            /\ redis[last.data.channel]
            /\ \A status \in StatusMessages : ENABLED HandleStatusUpdate(status, {})
            /\ \A complete \in CompleteMessages : ENABLED HandleCompleteUpdate(complete, {}))
    /\ [][last'.op = "parseError" =>
            /\ allConnections' = allConnections
            /\ readyState' = readyState
            /\ redis' = redis]_vars
    /\ [][last.op = "parseError" /\ last'.op = last.data.channel =>
            \A w \in Get(jobSubscriptions, last'.job_id) :
                readyState[w] = OPEN => sent'[w] = <<EventOut(last')>>]_vars

\* C35 witness: an unparsable payload has arrived on the status channel while an open
\* observer is subscribed to a job.
C35_Witness ==
    /\ last.op = "parseError"
    /\ last.data.channel = "status"
    /\ \E j \in JobIds : \E w \in After(j) : readyState[w] = OPEN

\* C36 (as stated): the selected_model of every descriptor that submit or retry pushes for
\* J is the selected_model stored in J's row at the push, also when the retry was given a
\* new valid model_id.
C36_DescriptorModelMatchesStore ==
    last.op = "pushJobToQueue" /\ last.data.ok =>
        /\ queue # <<>>
        /\ queue[Len(queue)].job_id = LastJob
        /\ queue[Len(queue)].selected_model = jobs[LastJob].selected_model

=============================================================================
